---- MODULE Spec2Model ----
(***************************************************************************)
(* Foundry: the Job Record model, the Phase/Pipeline execution engine, the *)
(* Human-in-the-Loop gate with its clarification-request ledger, and the   *)
(* correction / resolution handlers that write back to the same store.     *)
(*                                                                         *)
(* The store holds committed rows only.  Every action below is one         *)
(* transaction of the code (the attribute assignments up to and including  *)
(* the session commit that publishes them), so a state of the model is a   *)
(* state another session can read.                                         *)
(***************************************************************************)
EXTENDS Integers, Sequences, FiniteSets, TLC

VARIABLES jobs, requests, corrections, run_count, run, ckpt, rh, used, gpu, task

vars == <<jobs, requests, corrections, run_count, run, ckpt, rh, used, gpu, task>>

----------------------------------------------------------------------------
(* Bounds of the model.                                                    *)

\* longest phase list handed to a Pipeline
MaxPhases == 2
\* rows the clarification ledger may hold
MaxRequests == 2
\* operations (engine invocations, gate calls that raise requests, posted
\* corrections and resolutions) started in one behaviour
MaxOps == 3

\* processes that use the GPU lock
MaxProcs == 3
MaxBoxes == 3

\* the ids of the job rows of the store
JobIds == DOMAIN jobs
\* the job rows the sequential specification starts with
FirstJobs == {1}
\* an id no row has
MissingJobId == 0
\* engine invocations; the sequential specification drives the first one only
Workers == {1, 2}

----------------------------------------------------------------------------
(* Python values: None, dictionaries, truthiness.                          *)

None == <<>>
Some(v) == <<v>>

\* a dict is a function from its keys; {} is the function with no key
EmptyDict == [k \in {} |-> 0]

DictGet(d, k) == IF k \in DOMAIN d THEN Some(d[k]) ELSE None

DictSet(d, k, v) == [x \in (DOMAIN d) \cup {k} |-> IF x = k THEN v ELSE d[x]]

\* truth value of an optional dict: None and {} are both false
TruthyDict(o) == o # None /\ DOMAIN o[1] # {}

\* truth value of an optional string / an optional integer
TruthyStr(o) == o # None /\ o[1] # ""
TruthyInt(o) == o # None /\ o[1] # 0

\* faulty variant: the text is stored as it came
UpperUnchanged(s) == s

\* str.upper() on the texts the model uses
Upper(s) ==
    CASE s = "hello" -> "HELLO"
      [] s = "Hello" -> "HELLO"
      [] OTHER -> s

\* update of some columns of a row
Merge(upd, row) == [f \in DOMAIN row |-> IF f \in DOMAIN upd THEN upd[f] ELSE row[f]]

\* writes: job id -> column update; committed together
ApplyWrites(js, w) == [j \in DOMAIN js |-> IF j \in DOMAIN w THEN Merge(w[j], js[j]) ELSE js[j]]

NoWrites == [j \in {} |-> 0]

----------------------------------------------------------------------------
(* Statuses.                                                               *)

CompletedPhase(name) == "completed_phase:" \o name

PhaseNames == {"ExtractTextPhase", "ConvertToUppercasePhase",
               "AIExtractionPhase", "HumanInTheLoopPhase"}

\* Pipeline(db_session, phases): lists of up to MaxPhases distinct phases
PhaseLists ==
    {l \in UNION {[1..n -> PhaseNames] : n \in 0..MaxPhases} :
        \A i, k \in 1..Len(l) : i # k => l[i] # l[k]}

CheckpointStatuses == {CompletedPhase(p) : p \in PhaseNames}

----------------------------------------------------------------------------
(* The mock model of the production run: predict() cycles through the      *)
(* predefined pole-detection results (confidences in percent).             *)

MockPoleResults ==
    << [boxes |-> <<98, 97>>], [boxes |-> <<99, 65>>], [boxes |-> <<96, 71>>] >>

\* result_index = _run_count % len(results); _run_count += 1
Predict(rc) == MockPoleResults[(rc % Len(MockPoleResults)) + 1]
NextRunCount(rc) == (rc + 1) % Len(MockPoleResults)

\* the confidence threshold asked from the user, in percent
Threshold == 95

----------------------------------------------------------------------------
(* Phases.  PhaseOutcome is phase.process(context, db_session=self.db) as  *)
(* Pipeline.run calls it: kind "ok" (returned context), "pee" (raised      *)
(* PhaseExecutionError(msg)) or "exc" (raised another exception).  writes  *)
(* are what the phase committed through the session before returning.      *)

Ok(c, w, rc) == [kind |-> "ok", context |-> c, msg |-> "", writes |-> w, rc |-> rc]
Pee(c, m, rc) == [kind |-> "pee", context |-> c, msg |-> m, writes |-> NoWrites, rc |-> rc]
Exc(c, m, rc) == [kind |-> "exc", context |-> c, msg |-> m, writes |-> NoWrites, rc |-> rc]

ExtractTextPhase(context, rc) ==
    IF ~TruthyStr(DictGet(context, "content"))
    THEN Pee(context, "Input context must contain a 'content' key with text.", rc)
    ELSE Ok(DictSet(context, "extracted_text", context["content"]), NoWrites, rc)

ConvertToUppercasePhase(context, rc) ==
    IF ~TruthyStr(DictGet(context, "extracted_text"))
    THEN Pee(context, "Context is missing 'extracted_text' from the previous phase.", rc)
    ELSE Ok(DictSet(context, "uppercased_text", Upper(context["extracted_text"])), NoWrites, rc)

AIExtractionPhase(context, js, rc) ==
    IF ~TruthyInt(DictGet(context, "job_id"))
    THEN Pee(context, "Context must contain 'job_id'.", rc)
    ELSE IF context["job_id"] \notin DOMAIN js
    THEN Pee(context, "Job not found in AIExtractionPhase.", rc)
    ELSE Ok(DictSet(context, "ai_result", Predict(rc)),
            context["job_id"] :> [initial_ai_output |-> Some(Predict(rc))],
            NextRunCount(rc))

\* HumanInTheLoopPhase.process(self, context) takes no db_session keyword:
\* the call of Pipeline.run raises TypeError before the body runs
HumanInTheLoopPhaseCall(context, rc) ==
    Exc(context, "process() got an unexpected keyword argument 'db_session'", rc)

\* the phases of the Celery example (my_pipelines.py) declare
\* process(self, context) as well: the engine's call raises the same TypeError
MyPipelinesPhaseCall(context, rc) ==
    Exc(context, "process() got an unexpected keyword argument 'db_session'", rc)

MyPipelinesPhases == {"my_pipelines.ExtractTextPhase", "my_pipelines.ConvertToUppercasePhase"}

PhaseOutcome(name, context, js, rc) ==
    CASE name = "ExtractTextPhase" -> ExtractTextPhase(context, rc)
      [] name \in MyPipelinesPhases -> MyPipelinesPhaseCall(context, rc)
      [] name = "ConvertToUppercasePhase" -> ConvertToUppercasePhase(context, rc)
      [] name = "AIExtractionPhase" -> AIExtractionPhase(context, js, rc)
      [] OTHER -> HumanInTheLoopPhaseCall(context, rc)

----------------------------------------------------------------------------
(* Job rows as the producers of the repository create them.                *)

NewJob(owner, status, input) ==
    [owner_id |-> owner, status |-> status, input_data |-> input,
     initial_ai_output |-> None, corrected_output |-> None,
     pipeline_context |-> None, error_message |-> None]

\* start_new_job: a text job for the uppercase pipeline
TextJob(j) == NewJob(j, "pending", [content |-> "hello"])

\* create_initial_jobs: an image job of the production run
ImageJob(j) == NewJob(j, "pending", [type |-> "image", url |-> "/static/poles/a.jpg"])

HamLinked == [item_name |-> "TAVERN HAM WH", linked_pantry_item_id |-> Some(101)]
HamUnlinked == [item_name |-> "TAVERN HAM WH", linked_pantry_item_id |-> None]
OnionsUnlinked == [item_name |-> "ONIONS YELLOW JBO", linked_pantry_item_id |-> None]

\* setup_database_and_job / run_ambiguity_detection_pipeline: a job that already
\* carries an ambiguous output and a context naming the job (the session the
\* example also puts there is no JSON value and cannot be stored)
InvoiceJob(j, items) ==
    [NewJob(j, "completed_phase:InitialExtraction", [file |-> "invoice123.pdf"])
        EXCEPT !.initial_ai_output = Some([supplier_name |-> "Sysco", inventory_items |-> items]),
               !.pipeline_context = Some([job_id |-> j])]

JobChoices(j) ==
    {TextJob(j), ImageJob(j),
     InvoiceJob(j, <<HamLinked, OnionsUnlinked>>),
     InvoiceJob(j, <<HamUnlinked, OnionsUnlinked>>)}

----------------------------------------------------------------------------
(* Pipeline.run                                                            *)

IdleRun ==
    [pc |-> "idle", job |-> MissingJobId, phases |-> <<>>, idx |-> 1,
     context |-> EmptyDict, calls |-> <<>>, outcome |-> "none",
     preStatus |-> "", preContext |-> None, preOutput |-> None]

\* run() is over: the locals are gone, what is left is how it ended
Ended(j, pc, outcome) == [IdleRun EXCEPT !.pc = pc, !.job = j, !.outcome = outcome]

\* faulty variant: the working context always restarts from the input
InitialContextFromInput(job) == job.input_data

\* context = job.pipeline_context or job.input_data
InitialContext(job) ==
    IF TruthyDict(job.pipeline_context) THEN job.pipeline_context[1] ELSE job.input_data

\* faulty variant: the loop resumes after the phase the status names
ResumeIndex(job, phases) ==
    LET done == {i \in 1..Len(phases) : job.status = CompletedPhase(phases[i])}
    IN  IF done = {} THEN 1 ELSE 1 + CHOOSE i \in done : \A k \in done : k <= i

\* for phase in self.phases: the loop starts at the first phase of the list
FirstPhaseIndex(job, phases) == 1

\* job.status = "in_progress"; commit
StartFields == [status |-> "in_progress"]

\* faulty variant: the checkpoint publishes the status without the context
CheckpointStatusOnly(context, name) == [status |-> CompletedPhase(name)]

\* faulty variant: the working context, which began as the input dictionary,
\* is written back to input_data as well
CheckpointFieldsWithInput(context, name) ==
    [pipeline_context |-> Some(context), status |-> CompletedPhase(name),
     input_data |-> context]

\* the resilience checkpoint: context and status, one commit
CheckpointFields(context, name) ==
    [pipeline_context |-> Some(context), status |-> CompletedPhase(name)]

\* faulty variant: the failure is recorded without its message
FailureFieldsNoMessage(msg) == [status |-> "failed"]

\* except PhaseExecutionError as e
FailureFields(msg) == [status |-> "failed", error_message |-> Some(msg)]

\* faulty variant: the run is marked completed without copying the context
CompletionStatusOnly(context) == [status |-> "completed"]

\* faulty variant: the final context is stored as the corrected output too
CompletionFieldsAsCorrected(context) ==
    [status |-> "completed", initial_ai_output |-> Some(context),
     corrected_output |-> Some(context)]

\* faulty variant: the output is stored and the status left at the last checkpoint
CompletionOutputOnly(context) == [initial_ai_output |-> Some(context)]

\* all phases completed
CompletionFields(context) == [status |-> "completed", initial_ai_output |-> Some(context)]

\* one more operation is started
CountOp == used < MaxOps /\ used' = used + 1

CanStart(w) == run[w].pc \in {"idle", "returned", "raised"}

\* faulty variant: an unknown id falls back to the first job row
RunNotFoundTouchesJob(w, phases) ==
    /\ CanStart(w)
    /\ run' = [run EXCEPT ![w] = Ended(MissingJobId, "returned", "notfound")]
    /\ jobs' = ApplyWrites(jobs, 1 :> StartFields)
    /\ CountOp
    /\ UNCHANGED <<requests, corrections, run_count, ckpt, rh, gpu, task>>

\* run(job_id) for an id the store does not know: logged, nothing else
RunNotFound(w, phases) ==
    /\ CanStart(w)
    /\ run' = [run EXCEPT ![w] = Ended(MissingJobId, "returned", "notfound")]
    /\ CountOp
    /\ UNCHANGED <<jobs, requests, corrections, run_count, ckpt, rh, gpu, task>>

\* run(job_id): load the job, choose the working context, mark in_progress
RunStart(w, j, phases) ==
    /\ CanStart(w)
    /\ j \in JobIds
    /\ jobs' = ApplyWrites(jobs, j :> StartFields)
    /\ run' = [run EXCEPT ![w] =
                 [pc |-> "running", job |-> j, phases |-> phases,
                  idx |-> FirstPhaseIndex(jobs[j], phases),
                  context |-> InitialContext(jobs[j]), calls |-> <<>>,
                  outcome |-> "none", preStatus |-> jobs[j].status,
                  preContext |-> jobs[j].pipeline_context,
                  preOutput |-> jobs[j].initial_ai_output]]
    /\ CountOp
    /\ UNCHANGED <<requests, corrections, run_count, ckpt, rh, gpu, task>>

InLoop(w) == run[w].pc = "running" /\ run[w].idx <= Len(run[w].phases)

Outcome(w) ==
    PhaseOutcome(run[w].phases[run[w].idx], run[w].context, jobs, run_count)

\* phase.process returned: the working context is replaced by its result
PhaseSucceeds(w) ==
    /\ InLoop(w)
    /\ Outcome(w).kind = "ok"
    /\ jobs' = ApplyWrites(jobs, Outcome(w).writes)
    /\ run_count' = Outcome(w).rc
    /\ run' = [run EXCEPT ![w].pc = "executed",
                          ![w].context = Outcome(w).context,
                          ![w].calls = Append(@, run[w].idx)]
    /\ UNCHANGED <<requests, corrections, ckpt, rh, used, gpu, task>>

\* faulty variant: after the checkpoint the loop skips the next phase
CheckpointSkipsNext(w) ==
    /\ run[w].pc = "executed"
    /\ jobs' = ApplyWrites(jobs, run[w].job :>
                 CheckpointFields(run[w].context, run[w].phases[run[w].idx]))
    /\ ckpt' = [ckpt EXCEPT ![run[w].job] =
                 Some([phase |-> run[w].phases[run[w].idx], context |-> run[w].context])]
    /\ run' = [run EXCEPT ![w].pc = "running", ![w].idx = @ + 2]
    /\ UNCHANGED <<requests, corrections, run_count, rh, used, gpu, task>>

\* job.pipeline_context = context; job.status = completed_phase:<name>; commit
Checkpoint(w) ==
    /\ run[w].pc = "executed"
    /\ jobs' = ApplyWrites(jobs, run[w].job :>
                 CheckpointFields(run[w].context, run[w].phases[run[w].idx]))
    /\ ckpt' = [ckpt EXCEPT ![run[w].job] =
                 Some([phase |-> run[w].phases[run[w].idx], context |-> run[w].context])]
    /\ run' = [run EXCEPT ![w].pc = "running", ![w].idx = @ + 1]
    /\ UNCHANGED <<requests, corrections, run_count, rh, used, gpu, task>>

\* phase.process raised PhaseExecutionError: failed, message stored, return
PhaseFails(w) ==
    /\ InLoop(w)
    /\ Outcome(w).kind = "pee"
    /\ jobs' = ApplyWrites(jobs, run[w].job :> FailureFields(Outcome(w).msg))
    /\ run' = [run EXCEPT ![w] = Ended(run[w].job, "returned", "failed")]
    /\ UNCHANGED <<requests, corrections, run_count, ckpt, rh, used, gpu, task>>

\* faulty variant: the failed commit is swallowed and the loop goes on
CheckpointFailsIgnored(w) ==
    /\ run[w].pc = "executed"
    /\ run' = [run EXCEPT ![w].pc = "running", ![w].idx = @ + 1]
    /\ UNCHANGED <<jobs, requests, corrections, run_count, ckpt, rh, used, gpu, task>>

\* the commit of the checkpoint raises (database error): nothing of the
\* checkpoint is stored, the exception is no PhaseExecutionError and leaves run()
CheckpointFails(w) ==
    /\ run[w].pc = "executed"
    /\ run' = [run EXCEPT ![w] = Ended(run[w].job, "raised", "commit_failed")]
    /\ UNCHANGED <<jobs, requests, corrections, run_count, ckpt, rh, used, gpu, task>>

\* faulty variant: every exception is handled like a PhaseExecutionError
PhaseRaisesCaught(w) ==
    /\ InLoop(w)
    /\ Outcome(w).kind = "exc"
    /\ jobs' = ApplyWrites(jobs, run[w].job :> FailureFields(Outcome(w).msg))
    /\ run' = [run EXCEPT ![w] = Ended(run[w].job, "returned", "failed")]
    /\ UNCHANGED <<requests, corrections, run_count, ckpt, rh, used, gpu, task>>

\* phase.process raised something else: not caught, run() is left by the exception
PhaseRaises(w) ==
    /\ InLoop(w)
    /\ Outcome(w).kind = "exc"
    /\ run' = [run EXCEPT ![w] = Ended(run[w].job, "raised", "raised")]
    /\ UNCHANGED <<jobs, requests, corrections, run_count, ckpt, rh, used, gpu, task>>

\* after the loop: completed, the final context becomes the output
Complete(w) ==
    /\ run[w].pc = "running"
    /\ run[w].idx > Len(run[w].phases)
    /\ jobs' = ApplyWrites(jobs, run[w].job :> CompletionFields(run[w].context))
    /\ run' = [run EXCEPT ![w] = Ended(run[w].job, "returned", "completed")]
    /\ UNCHANGED <<requests, corrections, run_count, ckpt, rh, used, gpu, task>>

\* the worker process dies inside run(): its local state is gone, the store stays
Crash(w) ==
    /\ run[w].pc \in {"running", "executed"}
    /\ run' = [run EXCEPT ![w] = IdleRun]
    /\ UNCHANGED <<jobs, requests, corrections, run_count, ckpt, rh, used, gpu, task>>

\* no Celery task is being executed
IdleTask ==
    [pc |-> "idle", job |-> MissingJobId, name |-> "", session |-> "none",
     at |-> 0, caught |-> None]

\* no resolution request is being handled
IdleHandler == [pc |-> "idle", req |-> 0, answer |-> None]

----------------------------------------------------------------------------
(* Ambiguity detectors and the Human-in-the-Loop gate.                     *)

Detectors == {"UnlinkedProductDetector", "LowConfidenceDetector"}

\* ai_output = job.initial_ai_output or {}
OutputOrEmpty(job) ==
    IF TruthyDict(job.initial_ai_output) THEN job.initial_ai_output[1] ELSE EmptyDict

Unlinked(item) == DictGet(item, "linked_pantry_item_id") \in {None, Some(None)}

LinkProductEntry(j, item) ==
    [request_type |-> "LINK_PRODUCT",
     context_data |-> [item_name_from_invoice |-> item.item_name, job_id |-> j]]

\* one LINK_PRODUCT entry per inventory item without a linked pantry item
UnlinkedProductDetector(j, job) ==
    LET out == OutputOrEmpty(job)
        items == IF "inventory_items" \in DOMAIN out THEN out.inventory_items ELSE <<>>
        open == SelectSeq(items, Unlinked)
    IN  [i \in 1..Len(open) |-> LinkProductEntry(j, open[i])]

ReviewPolesEntry(j, job) ==
    [request_type |-> "REVIEW_POLES",
     context_data |-> [job_id |-> j, image_url |-> DictGet(job.input_data, "url"),
                       ai_output |-> job.initial_ai_output]]

ReviewInvoiceEntry(j, job) ==
    [request_type |-> "REVIEW_INVOICE",
     context_data |-> [job_id |-> j, image_url |-> DictGet(job.input_data, "url"),
                       ai_output |-> job.initial_ai_output]]

\* the confidences the invoice branch looks at: the fields that are
\* dictionaries with a 'confidence', at the top level and inside the items of
\* a list.  The simulator's invoices (with "line_items") carry them; the
\* invoice of the human-in-the-loop example holds plain values and has none.
InvoiceConfidences(out) ==
    IF "line_items" \notin DOMAIN out THEN <<>>
    ELSE <<out.supplier_name.confidence>>
           \o [i \in 1..Len(out.line_items) |-> out.line_items[i].quantity.confidence]

\* faulty variant: one review entry for every box below the threshold
LowConfidencePerField(j, job) ==
    LET out == OutputOrEmpty(job)
    IN  IF "supplier_name" \in DOMAIN out
        THEN IF \E i \in 1..Len(InvoiceConfidences(out)) :
                    InvoiceConfidences(out)[i] < Threshold
             THEN <<ReviewInvoiceEntry(j, job)>>
             ELSE <<>>
        ELSE IF "boxes" \in DOMAIN out
        THEN [i \in 1..Cardinality({k \in 1..Len(out.boxes) : out.boxes[k] < Threshold})
                |-> ReviewPolesEntry(j, job)]
        ELSE <<>>

\* LowConfidenceDetector.detect of the production run: one review entry when
\* a confidence is below the threshold.  An output with "supplier_name" takes
\* the invoice branch, an output with "boxes" the pole branch.
LowConfidenceDetector(j, job) ==
    LET out == OutputOrEmpty(job)
    IN  IF "supplier_name" \in DOMAIN out
        THEN IF \E i \in 1..Len(InvoiceConfidences(out)) :
                    InvoiceConfidences(out)[i] < Threshold
             THEN <<ReviewInvoiceEntry(j, job)>>
             ELSE <<>>
        ELSE IF "boxes" \in DOMAIN out
                /\ \E i \in 1..Len(out.boxes) : out.boxes[i] < Threshold
        THEN <<ReviewPolesEntry(j, job)>>
        ELSE <<>>

ReviewOcrEntry(j, job) ==
    [request_type |-> "REVIEW_OCR",
     context_data |-> [job_id |-> j, image_path |-> DictGet(job.input_data, "path"),
                       ai_output |-> job.initial_ai_output]]

\* job.initial_ai_output.get(...) on a job without output raises AttributeError
StationDetectorRaises(job) == job.initial_ai_output = None

\* LowConfidenceDetector.detect of the fine-tuning station:
\* confidence = job.initial_ai_output.get("confidence", 0)
StationLowConfidenceDetector(j, job) ==
    LET out == job.initial_ai_output[1]
        confidence == IF "confidence" \in DOMAIN out THEN out.confidence ELSE 0
    IN  IF confidence < Threshold THEN <<ReviewOcrEntry(j, job)>> ELSE <<>>

Detect(d, j, job) ==
    CASE d = "UnlinkedProductDetector" -> UnlinkedProductDetector(j, job)
      [] d = "StationLowConfidenceDetector" -> StationLowConfidenceDetector(j, job)
      [] OTHER -> LowConfidenceDetector(j, job)

\* the detector raises instead of returning
DetectRaises(d, job) == d = "StationLowConfidenceDetector" /\ StationDetectorRaises(job)

\* FoundryClarificationRequest(owner_id, request_type, context_data); the
\* status column defaults to 'pending', resolution_data to NULL
NewRequest(owner, entry) ==
    [owner_id |-> owner, request_type |-> entry.request_type, status |-> "pending",
     context_data |-> entry.context_data, resolution_data |-> None]

\* faulty variant: only the first entry becomes a request
GateRequestsFirstOnly(job, entries) == <<NewRequest(job.owner_id, entries[1])>>

\* the rows the gate adds for the detector's entries
GateRequests(job, entries) == [i \in 1..Len(entries) |-> NewRequest(job.owner_id, entries[i])]

\* job.status = "pending_clarification"
GateFields == [status |-> "pending_clarification"]

\* the context of a direct call: {'job_id': j, 'db_session': db}
GateContext(j) == [job_id |-> j, db_session |-> "session"]

\* an id no job row has
UnknownJobId == Cardinality(JobIds) + 1

\* contexts process() refuses: no job_id, no db_session, a job that is missing
BadGateContexts ==
    {[db_session |-> "session"]}
      \cup {[job_id |-> j] : j \in JobIds}
      \cup {GateContext(UnknownJobId)}

GateOutcome(kind, msg, context, entries) ==
    [kind |-> kind, msg |-> msg, context |-> context, entries |-> entries]

\* faulty variant: the returned context has lost the session handle
HumanInTheLoopPhaseDropsSession(context, d, js) ==
    IF ~TruthyInt(DictGet(context, "job_id")) \/ DictGet(context, "db_session") = None
    THEN GateOutcome("pee", "Context must contain 'job_id' and 'db_session'.", context, <<>>)
    ELSE IF context["job_id"] \notin DOMAIN js
    THEN GateOutcome("pee", "Job " \o ToString(context["job_id"]) \o " not found.", context, <<>>)
    ELSE IF DetectRaises(d, js[context["job_id"]])
    THEN GateOutcome("exc", "'NoneType' object has no attribute 'get'", context, <<>>)
    ELSE GateOutcome("ok", "", [job_id |-> context["job_id"]],
                     Detect(d, context["job_id"], js[context["job_id"]]))

\* HumanInTheLoopPhase(d).process(context): the checks, the detector's
\* entries, and the value returned
HumanInTheLoopPhase(context, d, js) ==
    IF ~TruthyInt(DictGet(context, "job_id")) \/ DictGet(context, "db_session") = None
    THEN GateOutcome("pee", "Context must contain 'job_id' and 'db_session'.", context, <<>>)
    ELSE IF context["job_id"] \notin DOMAIN js
    THEN GateOutcome("pee", "Job " \o ToString(context["job_id"]) \o " not found.", context, <<>>)
    ELSE IF DetectRaises(d, js[context["job_id"]])
    THEN GateOutcome("exc", "'NoneType' object has no attribute 'get'", context, <<>>)
    ELSE GateOutcome("ok", "", context,
                     Detect(d, context["job_id"], js[context["job_id"]]))

\* HumanInTheLoopPhase(d).process({'job_id': j, 'db_session': db}) with entries:
\* the requests and the waiting status, one commit
GateProcess(j, d) ==
    /\ j \in JobIds
    /\ HumanInTheLoopPhase(GateContext(j), d, jobs).kind = "ok"
    /\ HumanInTheLoopPhase(GateContext(j), d, jobs).entries # <<>>
    /\ Len(requests) + Len(HumanInTheLoopPhase(GateContext(j), d, jobs).entries) <= MaxRequests
    /\ requests' = requests \o GateRequests(jobs[j], HumanInTheLoopPhase(GateContext(j), d, jobs).entries)
    /\ jobs' = ApplyWrites(jobs, j :> GateFields)
    /\ CountOp
    /\ UNCHANGED <<corrections, run_count, run, ckpt, rh, gpu, task>>

\* the same call when the detector returns []: nothing is written
GateFindsNothing(j, d) ==
    /\ j \in JobIds
    /\ HumanInTheLoopPhase(GateContext(j), d, jobs).kind = "ok"
    /\ HumanInTheLoopPhase(GateContext(j), d, jobs).entries = <<>>
    /\ UNCHANGED vars

\* the same call on a context it refuses: PhaseExecutionError is raised to
\* the caller before the detector runs, nothing is written
GateRejects(context, d) ==
    /\ context \in BadGateContexts
    /\ HumanInTheLoopPhase(context, d, jobs).kind = "pee"
    /\ UNCHANGED vars

----------------------------------------------------------------------------
(* CorrectionHandler.save_correction and the resolution handlers.          *)

\* bodies the pole editor posts
PoleBodies == {[boxes |-> <<99, 97>>, note |-> "tree removed"]}

\* form_data_for_handler = {"boxes": corrected_data.get("boxes", [])} parsed
\* against PoleDetectionSchema: the boxes are kept, every other key is dropped
ParsePoleJson(body) == [boxes |-> IF "boxes" \in DOMAIN body THEN body.boxes ELSE <<>>]

\* {"text": corrected_text} parsed against OcrSchema, whose schema has no
\* property: no key of the form is kept
ParseOcrForm(text) == EmptyDict

\* job.corrected_output = corrected_data; job.status = "completed"
CorrectionFields(corrected) == [corrected_output |-> Some(corrected), status |-> "completed"]

RecordFor(j, job) ==
    [job_id |-> j, status |-> "approved_for_finetuning", source_input |-> job.input_data,
     model_output |-> job.initial_ai_output, human_correction |-> job.corrected_output]

HasRecord(j) == \E i \in 1..Len(corrections) : corrections[i].job_id = j

\* faulty variant: every call creates a record
AppendRecord(recs, j, job) == Append(recs, RecordFor(j, job))

\* the existing record of the job is updated, otherwise one is created
UpsertRecord(recs, j, job) ==
    IF \E i \in 1..Len(recs) : recs[i].job_id = j
    THEN [i \in 1..Len(recs) |-> IF recs[i].job_id = j THEN RecordFor(j, job) ELSE recs[i]]
    ELSE Append(recs, RecordFor(j, job))

\* save_correction(job_id, form_data, schema) for an existing job, one commit
SaveCorrection(j, corrected) ==
    /\ jobs' = ApplyWrites(jobs, j :> CorrectionFields(corrected))
    /\ corrections' = UpsertRecord(corrections, j, jobs'[j])

\* the correction deck posts a correction for a job
CorrectJob(j, body) ==
    /\ j \in JobIds
    /\ SaveCorrection(j, ParsePoleJson(body))
    /\ CountOp
    /\ UNCHANGED <<requests, run_count, run, ckpt, rh, gpu, task>>

\* job = self.db.get(Job, job_id); if not job: raise ValueError
SaveCorrectionRaises(js, j) == j \notin DOMAIN js

\* faulty variant: a record is created for the id although no job has it
CorrectMissingJobCreatesRecord(j, body) ==
    /\ SaveCorrectionRaises(jobs, j)
    /\ corrections' = Append(corrections,
                             [job_id |-> j, status |-> "approved_for_finetuning",
                              source_input |-> EmptyDict, model_output |-> None,
                              human_correction |-> Some(ParsePoleJson(body))])
    /\ CountOp
    /\ UNCHANGED <<jobs, requests, run_count, run, ckpt, rh, gpu, task>>

\* the correction deck posts a correction for an id no job has: ValueError
\* is raised to the caller, nothing is written
CorrectMissingJob(j, body) ==
    /\ SaveCorrectionRaises(jobs, j)
    /\ CountOp
    /\ UNCHANGED <<jobs, requests, corrections, run_count, run, ckpt, rh, gpu, task>>

RequestIds == 1..Len(requests)

\* job_id = req_to_resolve.context_data['job_id']
RequestJob(r) == requests[r].context_data.job_id

\* req_to_resolve.status = "resolved" (+ the audit trail of the production app)
ProductionResolved == [status |-> "resolved", resolution_data |-> Some([resolved_by |-> "user"])]

\* faulty variant: the station's second commit puts the request back to pending
StationReopened == [status |-> "pending"]

\* req.status = "resolved" of the fine-tuning station
StationResolved == [status |-> "resolved"]
ExampleResolved(form) == [status |-> "resolved", resolution_data |-> Some([user_answer |-> form])]

\* faulty variant: the example handler resolves the request and leaves the job waiting
ExampleJobUntouched == [k \in {} |-> ""]

\* job.status = "ready_for_final_processing"
ExampleJobFields == [status |-> "ready_for_final_processing"]

MarkRequest(r, upd) == [requests EXCEPT ![r] = Merge(upd, @)]

\* production run, POST /api/clarifications/{r}/resolve, up to the commit of
\* save_correction.  Nothing looks at the request's status.
ProductionResolveSave(r, body) ==
    /\ rh.pc = "idle"
    /\ r \in RequestIds
    /\ RequestJob(r) \in JobIds
    /\ SaveCorrection(RequestJob(r), ParsePoleJson(body))
    /\ rh' = [pc |-> "production", req |-> r, answer |-> Some(body)]
    /\ CountOp
    /\ UNCHANGED <<requests, run_count, run, ckpt, gpu, task>>

\* ... then the request is marked resolved, second commit
ProductionResolveMark ==
    /\ rh.pc = "production"
    /\ requests' = MarkRequest(rh.req, ProductionResolved)
    /\ rh' = IdleHandler
    /\ UNCHANGED <<jobs, corrections, run_count, run, ckpt, used, gpu, task>>

\* fine-tuning station, same route: corrected_output is set to the text and
\* then overwritten by save_correction with the parsed form
StationResolveSave(r, text) ==
    /\ rh.pc = "idle"
    /\ r \in RequestIds
    /\ RequestJob(r) \in JobIds
    /\ SaveCorrection(RequestJob(r), ParseOcrForm(text))
    /\ rh' = [pc |-> "station", req |-> r, answer |-> Some(text)]
    /\ CountOp
    /\ UNCHANGED <<requests, run_count, run, ckpt, gpu, task>>

StationResolveMark ==
    /\ rh.pc = "station"
    /\ requests' = MarkRequest(rh.req, StationResolved)
    /\ rh' = IdleHandler
    /\ UNCHANGED <<jobs, corrections, run_count, run, ckpt, used, gpu, task>>

\* human-in-the-loop example, do_POST: request and job in one commit
ExampleResolve(r, form) ==
    /\ rh.pc = "idle"
    /\ r \in RequestIds
    /\ RequestJob(r) \in JobIds
    /\ requests' = MarkRequest(r, ExampleResolved(form))
    /\ jobs' = ApplyWrites(jobs, RequestJob(r) :> ExampleJobFields)
    /\ CountOp
    /\ UNCHANGED <<corrections, run_count, run, ckpt, rh, gpu, task>>

OcrTexts == {"hello"}
ExampleForms == {"onions", "ham"}

Gate ==
    \/ \E j \in JobIds, d \in Detectors : GateProcess(j, d)
    \/ \E j \in JobIds, d \in Detectors : GateFindsNothing(j, d)
    \/ \E context \in BadGateContexts, d \in Detectors : GateRejects(context, d)

Resolution ==
    \/ \E j \in JobIds, body \in PoleBodies : CorrectJob(j, body)
    \/ \E body \in PoleBodies : CorrectMissingJob(MissingJobId, body)
    \/ \E r \in RequestIds, body \in PoleBodies : ProductionResolveSave(r, body)
    \/ ProductionResolveMark
    \/ \E r \in RequestIds, text \in OcrTexts : StationResolveSave(r, text)
    \/ StationResolveMark
    \/ \E r \in RequestIds, form \in ExampleForms : ExampleResolve(r, form)

----------------------------------------------------------------------------
(* The clarification feed: which request is shown next.                    *)

\* the users of the store: the owner of the jobs and a user without jobs
UserIds == {1, 2}

\* where(owner_id == user_id, status == "pending")
PendingOf(reqs, u) ==
    {r \in 1..Len(reqs) : reqs[r].owner_id = u /\ reqs[r].status = "pending"}

\* where(status == "pending") of the production app, which has one user
PendingOfAll(reqs) == {r \in 1..Len(reqs) : reqs[r].status = "pending"}

\* order_by(id).limit(1): the row with the smallest id, None when there is none
FirstOf(ids) == IF ids = {} THEN None ELSE Some(CHOOSE r \in ids : \A q \in ids : r <= q)

\* faulty variant: the newest pending request is shown
GetNextClarificationCardNewest(reqs, u) ==
    IF PendingOf(reqs, u) = {} THEN None
    ELSE Some(CHOOSE r \in PendingOf(reqs, u) : \A q \in PendingOf(reqs, u) : r >= q)

\* get_next_clarification_card(db_session, user_id): the id of the request
\* whose card is rendered, None for the completion partial
GetNextClarificationCard(reqs, u) == FirstOf(PendingOf(reqs, u))

\* GET /api/clarifications/next of the production app
ProductionNextCard(reqs) == FirstOf(PendingOfAll(reqs))

\* the feed asks for the next card: a read, nothing is written
FeedNext(u) ==
    /\ GetNextClarificationCard(requests, u) \in {None} \cup {Some(r) : r \in RequestIds}
    /\ UNCHANGED vars

ProductionFeedNext ==
    /\ ProductionNextCard(requests) \in {None} \cup {Some(r) : r \in RequestIds}
    /\ UNCHANGED vars

Feed ==
    \/ \E u \in UserIds : FeedNext(u)
    \/ ProductionFeedNext

----------------------------------------------------------------------------
(* run_foundry_pipeline: the generic Celery task.                          *)

\* PIPELINE_REGISTRY after main_app.py was imported: UppercasePipeline
Registry ==
    [n \in {"uppercase_pipeline"} |->
        <<"my_pipelines.ExtractTextPhase", "my_pipelines.ConvertToUppercasePhase">>]

\* the pipeline names a task may be sent with
TaskNames == {"uppercase_pipeline", "report_pipeline"}

\* job ids a task may be sent with: the jobs of the store and an unknown id
TaskJobIds == JobIds \cup {MissingJobId}

NotRegistered(name) == "Pipeline '" \o name \o "' is not registered."

\* faulty variant: the job is left as it is when the pipeline is unknown
UnregisteredIgnored(name) == [k \in {} |-> ""]

\* job.status = "failed"; job.error_message = f"Pipeline '{name}' is not registered."
UnregisteredFields(name) == [status |-> "failed", error_message |-> Some(NotRegistered(name))]

\* the task with a name the registry does not hold: the job, if it exists, is
\* marked failed (one commit), ValueError is raised and caught, the session
\* is closed
TaskUnregistered(j, name) ==
    /\ task.pc \in {"idle", "done"}
    /\ name \notin DOMAIN Registry
    /\ jobs' = IF j \in JobIds THEN ApplyWrites(jobs, j :> UnregisteredFields(name)) ELSE jobs
    /\ task' = [pc |-> "done", job |-> j, name |-> name, session |-> "closed",
                at |-> used, caught |-> Some(NotRegistered(name))]
    /\ CountOp
    /\ UNCHANGED <<requests, corrections, run_count, run, ckpt, rh, gpu>>

\* the task with a registered name: db = SyncSessionLocal(); the pipeline
\* class is instantiated with the session
TaskBegin(j, name) ==
    /\ task.pc \in {"idle", "done"}
    /\ name \in DOMAIN Registry
    /\ used < MaxOps
    /\ task' = [pc |-> "running", job |-> j, name |-> name, session |-> "open",
                at |-> used, caught |-> None]
    /\ UNCHANGED <<jobs, requests, corrections, run_count, run, ckpt, rh, used, gpu>>

\* pipeline.run(job_id=job_id) is entered
TaskRunStart ==
    /\ task.pc = "running" /\ used = task.at
    /\ task.job \in JobIds
    /\ RunStart(1, task.job, Registry[task.name])

TaskRunNotFound ==
    /\ task.pc = "running" /\ used = task.at
    /\ task.job \notin JobIds
    /\ RunNotFound(1, Registry[task.name])

\* run() is over, by return or by an exception: except Exception prints it,
\* finally closes the session, the task returns
TaskEnd ==
    /\ task.pc = "running" /\ used > task.at
    /\ run[1].pc \in {"returned", "raised"}
    /\ task' = [task EXCEPT !.pc = "done", !.session = "closed",
                            !.caught = IF run[1].pc = "raised" THEN Some(run[1].outcome)
                                       ELSE None]
    /\ UNCHANGED <<jobs, requests, corrections, run_count, run, ckpt, rh, used, gpu>>

NextTask ==
    \/ \E j \in TaskJobIds, name \in TaskNames : TaskUnregistered(j, name)
    \/ \E j \in TaskJobIds, name \in TaskNames : TaskBegin(j, name)
    \/ TaskRunStart
    \/ TaskRunNotFound
    \/ PhaseRaises(1)
    \/ TaskEnd

----------------------------------------------------------------------------
(* GPULock: the lock file data/gpu.lock and the processes using the lock.  *)

LockProcs == 1..MaxProcs

\* no lock file, every process outside
IdleGpu == [file |-> None, pc |-> [p \in LockProcs |-> "out"]]

\* with GPULock(owner): __enter__ begins
LockEnter(p) ==
    /\ gpu.pc[p] = "out"
    /\ gpu' = [gpu EXCEPT !.pc[p] = "testing"]
    /\ UNCHANGED <<jobs, requests, corrections, run_count, run, ckpt, rh, used, task>>

\* while os.path.exists(LOCK_FILE): time.sleep(2)
LockTest(p) ==
    /\ gpu.pc[p] = "testing"
    /\ gpu' = IF gpu.file # None THEN gpu ELSE [gpu EXCEPT !.pc[p] = "creating"]
    /\ UNCHANGED <<jobs, requests, corrections, run_count, run, ckpt, rh, used, task>>

\* with open(LOCK_FILE, 'w') as f: f.write(self.owner); the with-block begins
LockCreate(p) ==
    /\ gpu.pc[p] = "creating"
    /\ gpu' = [gpu EXCEPT !.file = Some(p), !.pc[p] = "inside"]
    /\ UNCHANGED <<jobs, requests, corrections, run_count, run, ckpt, rh, used, task>>

\* __exit__: if os.path.exists(LOCK_FILE): os.remove(LOCK_FILE)
LockExit(p) ==
    /\ gpu.pc[p] = "inside"
    /\ gpu' = [gpu EXCEPT !.file = None, !.pc[p] = "out"]
    /\ UNCHANGED <<jobs, requests, corrections, run_count, run, ckpt, rh, used, task>>

----------------------------------------------------------------------------

Init ==
    /\ jobs \in {f \in [FirstJobs -> UNION {JobChoices(j) : j \in FirstJobs}] :
                    \A j \in FirstJobs : f[j] \in JobChoices(j)}
    /\ requests = <<>>
    /\ corrections = <<>>
    /\ run_count = 0
    /\ run = [w \in Workers |-> IdleRun]
    /\ ckpt = [j \in FirstJobs |-> None]
    /\ rh = IdleHandler
    /\ used = 0
    /\ gpu = IdleGpu
    /\ task = IdleTask

Engine(w) ==
    \/ \E phases \in PhaseLists : RunNotFound(w, phases)
    \/ \E j \in JobIds, phases \in PhaseLists : RunStart(w, j, phases)
    \/ PhaseSucceeds(w)
    \/ Checkpoint(w)
    \/ CheckpointFails(w)
    \/ PhaseFails(w)
    \/ PhaseRaises(w)
    \/ Complete(w)
    \/ Crash(w)

Next == Engine(1) \/ Gate \/ Resolution \/ Feed

Spec == Init /\ [][Next]_vars

\* the processes of the station competing for the GPU lock
InitLock == Init /\ jobs[1] = TextJob(1)

NextLock ==
    \/ \E p \in LockProcs : LockEnter(p)
    \/ \E p \in LockProcs : LockTest(p)
    \/ \E p \in LockProcs : LockCreate(p)
    \/ \E p \in LockProcs : LockExit(p)

SpecTask == Init /\ [][NextTask]_vars

SpecLock == InitLock /\ [][NextLock]_vars

----------------------------------------------------------------------------
(* Steps of Pipeline.run as seen from outside.                             *)

Range(seq) == {seq[i] : i \in 1..Len(seq)}

UpTo(n) == [i \in 1..n |-> i]

\* run() of worker w passes the loop and returns in this step
CompletesNow(w) ==
    run[w].pc = "running" /\ run[w].idx > Len(run[w].phases) /\ run'[w].pc = "returned"

\* the phase now called raises PhaseExecutionError and run() returns in this step
FailsNow(w) == InLoop(w) /\ Outcome(w).kind = "pee" /\ run'[w].pc = "returned"

\* run(j) is entered by worker w in this step
StartsNow(w, j) == CanStart(w) /\ run'[w].pc = "running" /\ run'[w].job = j

----------------------------------------------------------------------------
(* C1 *)

\* C1: when Pipeline.run returns for an existing job after every phase of a
\* non-empty list returned, every phase was called, the persisted status is
\* 'completed' and the persisted output is the context the last phase returned.
C1_CompletedWithLastContext ==
    [][\A w \in Workers :
         CompletesNow(w) /\ run[w].phases # <<>> =>
            /\ run[w].calls = UpTo(Len(run[w].phases))
            /\ jobs'[run[w].job].status = "completed"
            /\ jobs'[run[w].job].initial_ai_output = Some(run[w].context)]_vars

C1_Witness ==
    /\ run[1].pc = "returned" /\ run[1].outcome = "completed"
    /\ jobs[1].status = "completed"
    /\ jobs[1].initial_ai_output =
         Some([content |-> "hello", extracted_text |-> "hello", uppercased_text |-> "HELLO"])

----------------------------------------------------------------------------
(* C2 *)

\* the phases of this run that returned before the one now called
Before(w) == {run[w].phases[i] : i \in 1..(run[w].idx - 1)}

\* what C2 says of every column but the output, for the step in which phase k
\* raises PhaseExecutionError(m)
FailureRecorded(w) ==
    LET j == run[w].job IN
    /\ jobs'[j].status = "failed"
    /\ jobs'[j].error_message = Some(Outcome(w).msg)
    /\ run[w].calls = UpTo(run[w].idx - 1)
    /\ run'[w].pc = "returned"
    /\ jobs'[j].pipeline_context =
         IF run[w].idx = 1 THEN run[w].preContext ELSE Some(ckpt[j][1].context)
    /\ run[w].idx > 1 => ckpt[j][1].phase = run[w].phases[run[w].idx - 1]

\* C2 as claimed: phase k raises PhaseExecutionError(m) => failed, error m, no
\* later phase, context of checkpoint k-1, and the output field as it was
\* before the run.
C2_AsClaimed ==
    [][\A w \in Workers :
         FailsNow(w) =>
            /\ FailureRecorded(w)
            /\ jobs'[run[w].job].initial_ai_output = run[w].preOutput]_vars

\* C2 as amended: ... and the engine does not write the output field in the
\* failing run: it is what it was before the run unless a phase that returned
\* earlier in the run (AIExtractionPhase) committed an output itself.
C2_FailureLeavesCheckpoint ==
    [][\A w \in Workers :
         FailsNow(w) =>
            /\ FailureRecorded(w)
            /\ jobs'[run[w].job].initial_ai_output = jobs[run[w].job].initial_ai_output
            /\ "AIExtractionPhase" \notin Before(w) =>
                  jobs'[run[w].job].initial_ai_output = run[w].preOutput]_vars

C2_Witness ==
    /\ run[1].pc = "returned" /\ run[1].outcome = "failed"
    /\ jobs[1].status = "failed"
    /\ jobs[1].error_message = Some("Context must contain 'job_id'.")
    /\ jobs[1].pipeline_context = Some([content |-> "hello", extracted_text |-> "hello"])
    /\ jobs[1].initial_ai_output = None

----------------------------------------------------------------------------
(* C3 *)

\* C3: in every state of the store, a status 'completed_phase:P' written by
\* the engine stands next to the context which that execution of P returned.
C3_CheckpointAtomic ==
    \A j \in JobIds :
        jobs[j].status \in CheckpointStatuses =>
            /\ ckpt[j] # None
            /\ jobs[j].status = CompletedPhase(ckpt[j][1].phase)
            /\ jobs[j].pipeline_context = Some(ckpt[j][1].context)

\* the checkpoint of a phase that itself committed through the session
C3_Witness ==
    /\ jobs[1].status = CompletedPhase("AIExtractionPhase")
    /\ jobs[1].initial_ai_output = Some(MockPoleResults[1])
    /\ jobs[1].pipeline_context = Some([job_id |-> 1, ai_result |-> MockPoleResults[1]])

----------------------------------------------------------------------------
(* C4 *)

\* C4: a run entered on a job for which an earlier run committed a
\* checkpoint (and then crashed or ended otherwise) starts with the context of
\* the last committed checkpoint as its working context.
C4_RestartFromCheckpoint ==
    [][\A w \in Workers, j \in JobIds :
         StartsNow(w, j) /\ ckpt[j] # None =>
            run'[w].context = ckpt[j][1].context]_vars

\* restarted after the first phase was checkpointed and the run did not finish
C4_Witness ==
    /\ run[1].pc = "running" /\ run[1].calls = <<>>
    /\ run[1].preStatus = CompletedPhase("ExtractTextPhase")
    /\ run[1].context = [content |-> "hello", extracted_text |-> "hello"]
    /\ run[1].context # jobs[1].input_data

----------------------------------------------------------------------------
(* C5 *)

\* C5: whatever the job's status and checkpoints when run is entered, the
\* phases are called in list order from the first one, none skipped.
C5_ReplaysWholeList ==
    \A w \in Workers :
        /\ run[w].pc = "running" =>
              run[w].calls = UpTo(run[w].idx - 1) /\ run[w].idx <= Len(run[w].phases) + 1
        /\ run[w].pc = "executed" =>
              run[w].calls = UpTo(run[w].idx) /\ run[w].idx <= Len(run[w].phases)

\* both phases called again on a job an earlier run had completed with them
C5_Witness ==
    /\ run[1].pc = "running" /\ run[1].idx = 3
    /\ run[1].phases = <<"ExtractTextPhase", "ConvertToUppercasePhase">>
    /\ run[1].calls = <<1, 2>>
    /\ run[1].preStatus = "completed"
    /\ run[1].preContext # None /\ "uppercased_text" \in DOMAIN run[1].preContext[1]

----------------------------------------------------------------------------
(* C6 *)

\* every phase of the list maps the context c to itself, whatever the model
\* would predict
IdempotentOn(phases, c) ==
    \A i \in 1..Len(phases) : \A rc \in 0..(Len(MockPoleResults) - 1) :
        /\ PhaseOutcome(phases[i], c, jobs, rc).kind = "ok"
        /\ PhaseOutcome(phases[i], c, jobs, rc).context = c

\* run of worker w was entered on a job a completed run had left (status
\* completed, output = checkpointed context) with phases idempotent on that output
RerunOfCompleted(w) ==
    /\ run[w].pc \in {"running", "executed"}
    /\ run[w].phases # <<>>
    /\ run[w].preStatus = "completed"
    /\ run[w].preOutput # None
    /\ run[w].preOutput = run[w].preContext
    /\ IdempotentOn(run[w].phases, run[w].preOutput[1])

\* C6: such a second run raises in no phase, ends 'completed' and writes an
\* output equal to the output of the first run.
C6_IdempotentRerun ==
    [][\A w \in Workers :
         RerunOfCompleted(w) =>
            /\ run[w].context = run[w].preOutput[1]
            /\ InLoop(w) => Outcome(w).kind = "ok"
            /\ CompletesNow(w) =>
                  /\ jobs'[run[w].job].status = "completed"
                  /\ jobs'[run[w].job].initial_ai_output = run[w].preOutput]_vars

C6_Witness ==
    /\ RerunOfCompleted(1)
    /\ run[1].phases = <<"ExtractTextPhase", "ConvertToUppercasePhase">>
    /\ run[1].pc = "running" /\ run[1].idx = 3

----------------------------------------------------------------------------
(* C7 *)

\* C7: a gate call whose detector returns n >= 1 entries appends exactly n
\* requests to the ledger, each 'pending', owned by the job's owner, with the
\* request_type and context_data of its entry, and changes no older request.
C7_GateCreatesRequests ==
    [][\A j \in JobIds, d \in Detectors :
         GateProcess(j, d) =>
            LET e == Detect(d, j, jobs[j])
                n == Len(requests)
            IN  /\ Len(requests') = n + Len(e)
                /\ SubSeq(requests', 1, n) = requests
                /\ \A i \in 1..Len(e) :
                      requests'[n + i] =
                         [owner_id |-> jobs[j].owner_id,
                          request_type |-> e[i].request_type,
                          status |-> "pending",
                          context_data |-> e[i].context_data,
                          resolution_data |-> None]]_vars

\* one call, two entries, two pending requests
C7_Witness ==
    /\ used = 1 /\ Len(requests) = 2
    /\ \A i \in 1..2 : requests[i].status = "pending" /\ requests[i].request_type = "LINK_PRODUCT"
    /\ requests[1].context_data.item_name_from_invoice = "TAVERN HAM WH"
    /\ requests[2].context_data.item_name_from_invoice = "ONIONS YELLOW JBO"

----------------------------------------------------------------------------
(* C8 *)

\* run() of worker w ends in this step, by return or by an exception
EndsNow(w) == run[w].pc \in {"running", "executed"} /\ run'[w].pc \in {"returned", "raised"}

\* C8: when a run whose list holds a HumanInTheLoopPhase ends without a
\* PhaseExecutionError, on a job for which a detector has an entry, the job's
\* status is the waiting status 'pending_clarification'.
C8_AsClaimed ==
    [][\A w \in Workers :
         /\ EndsNow(w)
         /\ "HumanInTheLoopPhase" \in Range(run[w].phases)
         /\ \E d \in Detectors : Detect(d, run[w].job, jobs[run[w].job]) # <<>>
         /\ run'[w].outcome # "failed"
         => jobs'[run[w].job].status = "pending_clarification"]_vars

----------------------------------------------------------------------------
(* C9 *)

PendingFor(j) ==
    {r \in RequestIds : requests[r].status = "pending" /\ RequestJob(r) = j}

\* C9: a job whose status is 'pending_clarification' has a pending
\* clarification request raised for it.
C9_WaitingHasPending ==
    \A j \in JobIds : jobs[j].status = "pending_clarification" => PendingFor(j) # {}

\* waiting again after an earlier request of the job was resolved
C9_Witness ==
    /\ jobs[1].status = "pending_clarification"
    /\ \E r \in RequestIds : requests[r].status = "resolved" /\ RequestJob(r) = 1
    /\ PendingFor(1) # {}

----------------------------------------------------------------------------
(* C10 *)

\* a resolution of request r is posted and its first commit happens in this step
ResolvesNow(r) ==
    \/ \E body \in PoleBodies : ProductionResolveSave(r, body)
    \/ \E text \in OcrTexts : StationResolveSave(r, text)
    \/ \E form \in ExampleForms : ExampleResolve(r, form)

\* C10: a resolution posted for a request that is already 'resolved' changes
\* neither the request nor any job.
C10_AsClaimed ==
    [][\A r \in RequestIds :
         requests[r].status = "resolved" /\ ResolvesNow(r) =>
            requests'[r] = requests[r] /\ jobs' = jobs]_vars

----------------------------------------------------------------------------
(* C11 *)

\* the resolution field rd holds the answer: the posted boxes (production
\* run), the corrected text (station), the posted form (example)
HoldsAnswer(r, rd) ==
    /\ rd # None
    /\ rh.pc = "production" => DictGet(rd[1], "boxes") = Some(rh.answer[1].boxes)
    /\ rh.pc = "station" => DictGet(rd[1], "text") = rh.answer
    /\ \A form \in ExampleForms :
          ExampleResolve(r, form) => DictGet(rd[1], "user_answer") = Some(form)

\* C11: a step that takes a request from 'pending' to 'resolved' stores the
\* answer of that resolution in the request's resolution_data.
C11_AsClaimed ==
    [][\A r \in RequestIds :
         requests[r].status = "pending" /\ requests'[r].status = "resolved" =>
            HoldsAnswer(r, requests'[r].resolution_data)]_vars

----------------------------------------------------------------------------
(* C12 *)

\* C12: in every state, a job whose status is not 'failed' has no error
\* message.
C12_AsClaimed ==
    \A j \in JobIds : jobs[j].status # "failed" => jobs[j].error_message = None

----------------------------------------------------------------------------
(* C13 *)

\* run() of worker w is called in this step for an id the store does not know
\* (the pipeline's phase list plays no part in this branch)
NotFoundNow(w) == RunNotFound(w, <<>>)

\* C13: run() on an unknown job id returns at once: no phase is called, no
\* job row and no clarification request is created or changed.
C13_NotFoundChangesNothing ==
    [][\A w \in Workers :
         NotFoundNow(w) =>
            /\ run'[w].pc = "returned" /\ run'[w].calls = <<>>
            /\ run'[w].job \notin JobIds
            /\ jobs' = jobs /\ requests' = requests /\ corrections' = corrections
            /\ ckpt' = ckpt /\ run_count' = run_count]_vars

\* the call returned for the unknown id next to a job that waits untouched
C13_Witness ==
    /\ run[1].pc = "returned" /\ run[1].outcome = "notfound"
    /\ run[1].job = MissingJobId
    /\ used = 1
    /\ jobs[1] = TextJob(1)
    /\ requests = <<>>

----------------------------------------------------------------------------
(* C14 *)

\* the phase now called raises an exception that is no PhaseExecutionError
\* and run() of worker w is left in this step
RaisesNow(w) ==
    InLoop(w) /\ Outcome(w).kind = "exc" /\ run'[w].pc \in {"returned", "raised"}

\* the status the engine itself persisted last in the run of worker w
LastEngineStatus(w) ==
    IF run[w].idx = 1 THEN "in_progress"
    ELSE CompletedPhase(run[w].phases[run[w].idx - 1])

\* C14: when a phase raises another exception than PhaseExecutionError, run()
\* is left by that exception; nothing is written: the job is not 'failed', no
\* later phase is called, and status and context stay those of the last
\* checkpoint of the run ('in_progress' and the pre-run context if none).
C14_OtherExceptionPropagates ==
    [][\A w \in Workers :
         RaisesNow(w) =>
            LET j == run[w].job IN
            /\ run'[w].pc = "raised"
            /\ run[w].calls = UpTo(run[w].idx - 1)
            /\ jobs' = jobs /\ requests' = requests
            /\ jobs'[j].status # "failed" /\ jobs'[j].error_message = jobs[j].error_message
            /\ jobs'[j].pipeline_context =
                 IF run[w].idx = 1 THEN run[w].preContext ELSE Some(ckpt[j][1].context)
            /\ jobs'[j].status \in CheckpointStatuses \cup {"in_progress"} =>
                 jobs'[j].status = LastEngineStatus(w)]_vars

\* the gate raised TypeError as second phase: the first checkpoint stands
C14_Witness ==
    /\ run[1].pc = "raised"
    /\ jobs[1].status = CompletedPhase("ExtractTextPhase")
    /\ jobs[1].pipeline_context = Some([content |-> "hello", extracted_text |-> "hello"])
    /\ jobs[1].error_message = None
    /\ jobs[1].initial_ai_output = None

----------------------------------------------------------------------------
(* C15 *)

\* C15: when the commit of a checkpoint fails, the invocation is over: it is
\* left by the exception with nothing persisted, and after an invocation was
\* left that way its worker does nothing more until run() is called anew.
C15_CommitFailureEndsRun ==
    [][\A w \in Workers :
         /\ CheckpointFails(w) =>
               /\ run'[w].pc = "raised"
               /\ jobs' = jobs /\ ckpt' = ckpt
         /\ run[w].pc = "raised" /\ run'[w] # run[w] => used' = used + 1]_vars

\* the first checkpoint failed: the job is left in_progress without a context
C15_Witness ==
    /\ run[1].pc = "raised" /\ run[1].outcome = "commit_failed"
    /\ jobs[1].status = "in_progress"
    /\ jobs[1].pipeline_context = None
    /\ ckpt[1] = None

----------------------------------------------------------------------------
(* C16: two invocations of run() on the same job, each with its own        *)
(* session, interleaved commit by commit.                                  *)

TextPhases == {"ExtractTextPhase", "ConvertToUppercasePhase"}

TextPhaseLists == {l \in PhaseLists : Range(l) \subseteq TextPhases}

InitConc == Init /\ jobs[1] = TextJob(1)

ConcEngine(w) ==
    \/ \E phases \in TextPhaseLists : RunStart(w, 1, phases)
    \/ PhaseSucceeds(w)
    \/ Checkpoint(w)
    \/ PhaseFails(w)
    \/ Complete(w)

NextConc == ConcEngine(1) \/ ConcEngine(2)

SpecConc == InitConc /\ [][NextConc]_vars

\* the store shows what the invocation of worker w itself persisted last
Coherent(w) ==
    run[w].pc = "running" =>
        /\ jobs[run[w].job].status = LastEngineStatus(w)
        /\ run[w].idx > 1 => jobs[run[w].job].pipeline_context = Some(run[w].context)

\* C16: the checkpoint sequence of an invocation is broken only by another
\* invocation on the same job (a lone invocation always finds the store as it
\* left it), and interleaving does break it.
C16_OnlyInterleavingCorrupts ==
    \A w \in Workers :
        ~Coherent(w) =>
            \E v \in Workers \ {w} : run[v].pc # "idle" /\ run[v].job = run[w].job

\* worker 1 has checkpointed the second phase; the store shows the first
\* phase's checkpoint, written afterwards by worker 2 running the same list
C16_Witness ==
    /\ run[1].phases = <<"ExtractTextPhase", "ConvertToUppercasePhase">>
    /\ run[2].phases = run[1].phases
    /\ run[1].pc = "running" /\ run[1].idx = 3
    /\ run[2].pc = "running" /\ run[2].idx = 2
    /\ ckpt[1] = Some([phase |-> "ExtractTextPhase",
                       context |-> [content |-> "hello", extracted_text |-> "hello"]])
    /\ jobs[1].status = CompletedPhase("ExtractTextPhase")
    /\ jobs[1].pipeline_context = Some([content |-> "hello", extracted_text |-> "hello"])
    /\ ~Coherent(1)

----------------------------------------------------------------------------
(* C17 *)

InsideLock == {p \in LockProcs : gpu.pc[p] = "inside"}

\* C17: at most one process is inside the with-block of GPULock at any time.
C17_AsClaimed == Cardinality(InsideLock) <= 1

----------------------------------------------------------------------------
(* C18 *)

HelloInput == [content |-> "hello"]

\* run of worker w was entered on a job with input {"content": "hello"} and
\* no persisted context, with the phase list phases
HelloRun(w, phases) ==
    /\ run[w].pc \in {"running", "executed"}
    /\ run[w].phases = phases
    /\ run[w].preContext = None
    /\ jobs[run[w].job].input_data = HelloInput

\* C18 as claimed: with input {"content": "hello"} and ConvertToUppercasePhase
\* alone, the run ends 'completed' with output
\* {"content": "hello", "uppercased": "HELLO"}.
C18_AsClaimed ==
    [][\A w \in Workers :
         HelloRun(w, <<"ConvertToUppercasePhase">>) /\ EndsNow(w) =>
            /\ jobs'[run[w].job].status = "completed"
            /\ jobs'[run[w].job].initial_ai_output =
                 Some([content |-> "hello", uppercased |-> "HELLO"])]_vars

\* C18 as amended: with that input and the list [ExtractTextPhase,
\* ConvertToUppercasePhase] no phase fails and the run completes with output
\* {content: hello, extracted_text: hello, uppercased_text: HELLO};
\* ConvertToUppercasePhase alone fails for want of 'extracted_text'.
C18_UppercaseScenario ==
    [][\A w \in Workers :
         /\ HelloRun(w, <<"ExtractTextPhase", "ConvertToUppercasePhase">>) =>
               /\ InLoop(w) => Outcome(w).kind = "ok"
               /\ CompletesNow(w) =>
                     /\ jobs'[run[w].job].status = "completed"
                     /\ jobs'[run[w].job].initial_ai_output =
                          Some([content |-> "hello", extracted_text |-> "hello",
                                uppercased_text |-> "HELLO"])
         /\ HelloRun(w, <<"ConvertToUppercasePhase">>) /\ InLoop(w) =>
               /\ Outcome(w).kind = "pee"
               /\ Outcome(w).msg =
                    "Context is missing 'extracted_text' from the previous phase."
               /\ EndsNow(w) => jobs'[run[w].job].status = "failed"]_vars

\* the first and only run of the two-phase list on the hello job has returned
C18_Witness ==
    /\ used = 1
    /\ run[1].pc = "returned" /\ run[1].outcome = "completed"
    /\ jobs[1].input_data = HelloInput
    /\ jobs[1].status = "completed"
    /\ jobs[1].error_message = None
    /\ jobs[1].pipeline_context = jobs[1].initial_ai_output
    /\ jobs[1].initial_ai_output =
         Some([content |-> "hello", extracted_text |-> "hello", uppercased_text |-> "HELLO"])

----------------------------------------------------------------------------
(* C19 *)

\* C19: every clarification request row carries a job_id of its own, whatever
\* its context_data holds, and that id names a job of the store.
C19_AsClaimed ==
    \A r \in RequestIds :
        "job_id" \in DOMAIN requests[r] /\ requests[r].job_id \in JobIds

----------------------------------------------------------------------------
(* C20 *)

\* the positions of the gate in the phase list of worker w
GateAt(w) == {i \in 1..Len(run[w].phases) : run[w].phases[i] = "HumanInTheLoopPhase"}

\* C20: when a run whose list holds the gate ends without a
\* PhaseExecutionError, on a job for which a detector has an entry, every
\* phase that follows the gate in the list was called in that run.
C20_AsClaimed ==
    [][\A w \in Workers :
         /\ run[w].pc = "running" /\ run'[w].pc \in {"returned", "raised"}
         /\ run'[w].outcome # "failed"
         /\ \E d \in Detectors : Detect(d, run[w].job, jobs[run[w].job]) # <<>>
         => \A i \in GateAt(w) : \A k \in (i + 1)..Len(run[w].phases) :
               k \in Range(run[w].calls)]_vars

----------------------------------------------------------------------------
(* C21 *)

\* no detector has an entry for job j
NothingToAsk(j) == \A d \in Detectors : Detect(d, j, jobs[j]) = <<>>

\* C21: when a run whose list holds the gate ends without a
\* PhaseExecutionError, on a job for which every detector returns the empty
\* list, the gate has created no request and written no status, and the
\* engine has taken its checkpoint for the gate: the gate's position is among
\* the phases called and checkpointed in that run.
C21_AsClaimed ==
    [][\A w \in Workers :
         /\ EndsNow(w)
         /\ run'[w].outcome # "failed"
         /\ NothingToAsk(run[w].job)
         => /\ requests' = requests
            /\ \A i \in GateAt(w) : i \in Range(run[w].calls)]_vars

----------------------------------------------------------------------------
(* C22 *)

----------------------------------------------------------------------------
(* C23 *)

\* the working context of worker w has no usable job id
LacksJobId(w) == ~TruthyInt(DictGet(run[w].context, "job_id"))

\* C23: when the engine reaches the gate with a context that lacks 'job_id',
\* the run ends 'failed' with the gate's message and no request is created.
C23_AsClaimed ==
    [][\A w \in Workers :
         /\ InLoop(w) /\ run[w].phases[run[w].idx] = "HumanInTheLoopPhase"
         /\ LacksJobId(w)
         /\ EndsNow(w)
         => /\ requests' = requests
            /\ jobs'[run[w].job].status = "failed"
            /\ jobs'[run[w].job].error_message =
                 Some("Context must contain 'job_id' and 'db_session'.")]_vars

----------------------------------------------------------------------------
(* C24 *)

----------------------------------------------------------------------------
(* C25 *)

\* C25: whenever a step resolves a pending request raised for job J, J's
\* corrected_output holds an answer after the step.
C25_AsClaimed ==
    [][\A r \in RequestIds :
         requests[r].status = "pending" /\ requests'[r].status = "resolved" =>
            jobs'[RequestJob(r)].corrected_output # None]_vars

----------------------------------------------------------------------------
(* C26 *)

\* C26: every status a run persists is the next one of the sequence
\* in_progress, completed_phase:p1, completed_phase:p2, ... of its phase list:
\* the run starts with in_progress at the first phase, each checkpoint names
\* the phase just called and moves to the phase after it, a phase call
\* persists no status, 'completed' is written only after the checkpoint of
\* the last phase, 'failed' only by the phase that raised
\* PhaseExecutionError, and a run left by an exception persists nothing more.
C26_StatusesInListOrder ==
    [][\A w \in Workers :
         LET j == run[w].job
             n == Len(run[w].phases)
         IN  /\ \A k \in JobIds : StartsNow(w, k) =>
                   /\ jobs'[k].status = "in_progress"
                   /\ run'[w].idx = 1 /\ run'[w].calls = <<>>
             /\ run[w].pc = "running" /\ run'[w].pc = "executed" =>
                   /\ run'[w].idx = run[w].idx /\ run[w].idx <= n
                   /\ run'[w].calls = UpTo(run[w].idx)
                   /\ jobs'[j].status = jobs[j].status
             /\ run[w].pc = "executed" /\ run'[w].pc = "running" =>
                   /\ run'[w].idx = run[w].idx + 1
                   /\ jobs'[j].status = CompletedPhase(run[w].phases[run[w].idx])
             /\ run[w].pc = "running" /\ run'[w].pc = "returned" =>
                   \/ /\ run'[w].outcome = "completed"
                      /\ run[w].idx = n + 1 /\ run[w].calls = UpTo(n)
                      /\ jobs'[j].status = "completed"
                   \/ /\ run'[w].outcome = "failed"
                      /\ run[w].idx <= n /\ run[w].calls = UpTo(run[w].idx - 1)
                      /\ jobs'[j].status = "failed"
             /\ run[w].pc \in {"running", "executed"} /\ run'[w].pc \in {"raised", "idle"} =>
                   jobs' = jobs]_vars

\* the first run on the hello job has persisted in_progress and both
\* checkpoints in list order and is about to complete
C26_Witness ==
    /\ used = 1
    /\ run[1].pc = "running" /\ run[1].idx = 3
    /\ run[1].phases = <<"ExtractTextPhase", "ConvertToUppercasePhase">>
    /\ run[1].preStatus = "pending"
    /\ jobs[1].status = CompletedPhase("ConvertToUppercasePhase")
    /\ ckpt[1] # None /\ ckpt[1][1].phase = "ConvertToUppercasePhase"

----------------------------------------------------------------------------
(* C27: a job whose persisted context is the empty dictionary.             *)

\* Job(owner_id, input_data={'content': 'hello'}) whose pipeline_context
\* column holds {}
EmptyContextJob(j) == [TextJob(j) EXCEPT !.pipeline_context = Some(EmptyDict)]

InitEmpty ==
    /\ jobs = [j \in FirstJobs |-> EmptyContextJob(j)]
    /\ requests = <<>>
    /\ corrections = <<>>
    /\ run_count = 0
    /\ run = [w \in Workers |-> IdleRun]
    /\ ckpt = [j \in FirstJobs |-> None]
    /\ rh = IdleHandler
    /\ used = 0
    /\ gpu = IdleGpu
    /\ task = IdleTask

NextEmpty == ConcEngine(1)

SpecEmpty == InitEmpty /\ [][NextEmpty]_vars

\* C27: a run starts its working context from the job's persisted context
\* whenever the job has one, the empty dictionary included, and from the
\* input only when no context was persisted.
C27_AsClaimed ==
    [][\A w \in Workers : \A j \in JobIds :
         StartsNow(w, j) =>
            run'[w].context = IF jobs[j].pipeline_context # None
                              THEN jobs[j].pipeline_context[1]
                              ELSE jobs[j].input_data]_vars

----------------------------------------------------------------------------
(* C28 *)

\* C28: no step of the engine, the gate or the correction and resolution
\* handlers changes the input_data of a job, also not the checkpoint of a
\* context that began as the input and to which phases added keys.
C28_InputNeverChanges ==
    [][\A j \in JobIds :
         j \in DOMAIN jobs' /\ jobs'[j].input_data = jobs[j].input_data]_vars

\* the hello job after a run whose phases added keys to the context taken
\* from the input, and after a correction: the input is as created
C28_Witness ==
    /\ jobs[1].input_data = HelloInput
    /\ jobs[1].pipeline_context # None
    /\ "extracted_text" \in DOMAIN jobs[1].pipeline_context[1]
    /\ jobs[1].corrected_output # None
    /\ HasRecord(1)

----------------------------------------------------------------------------
(* C29 *)

\* the step is save_correction for job j, called by the correction deck or by
\* a resolution handler
HumanPathStep(j) ==
    \/ \E body \in PoleBodies : CorrectJob(j, body)
    \/ \E r \in RequestIds, body \in PoleBodies :
          RequestJob(r) = j /\ ProductionResolveSave(r, body)
    \/ \E r \in RequestIds, text \in OcrTexts :
          RequestJob(r) = j /\ StationResolveSave(r, text)

\* C29: a step that changes a job's corrected_output is a step of the
\* human-correction path for that job; so corrected_output stays None as long
\* as only engine runs and gate calls act on the job (no correction record
\* exists for it).
C29_OnlyHumanPathWrites ==
    [][\A j \in JobIds :
         /\ jobs'[j].corrected_output # jobs[j].corrected_output => HumanPathStep(j)
         /\ ~HasRecord(j) => jobs[j].corrected_output = None]_vars

\* an engine run has completed on job 1 and the gate has raised requests for
\* it; nobody corrected the job and its corrected_output is None
C29_Witness ==
    /\ run[1].pc = "returned" /\ run[1].outcome = "completed"
    /\ requests # <<>>
    /\ \A r \in RequestIds : requests[r].status = "pending"
    /\ corrections = <<>>
    /\ jobs[1].corrected_output = None

----------------------------------------------------------------------------
(* C30: two workers, each running Pipeline.run once on a job of its own,   *)
(* with pipelines built around the same MockAISimulator.                   *)

PairJobs == {1, 2}

\* two jobs whose persisted context names them
PairStore == [j \in PairJobs |-> InvoiceJob(j, <<HamLinked, OnionsUnlinked>>)]

PairPhases == {"ExtractTextPhase", "AIExtractionPhase"}

PairLists == {l \in PhaseLists : Range(l) \subseteq PairPhases}

InitPair ==
    /\ jobs = PairStore
    /\ requests = <<>>
    /\ corrections = <<>>
    /\ run_count = 0
    /\ run = [w \in Workers |-> IdleRun]
    /\ ckpt = [j \in PairJobs |-> None]
    /\ rh = IdleHandler
    /\ used = 0
    /\ gpu = IdleGpu
    /\ task = IdleTask

\* worker w runs job w, once
PairEngine(w) ==
    \/ \E phases \in PairLists : run[w].pc = "idle" /\ RunStart(w, w, phases)
    \/ PhaseSucceeds(w)
    \/ Checkpoint(w)
    \/ PhaseFails(w)
    \/ Complete(w)

NextPair == PairEngine(1) \/ PairEngine(2)

SpecPair == InitPair /\ [][NextPair]_vars

\* Pipeline.run(j) with nothing else running: the loop from phase i on, with
\* the store js, the working context and the simulator's count rc
RECURSIVE AloneLoop(_, _, _, _, _, _)
AloneLoop(js, j, phases, i, context, rc) ==
    IF i > Len(phases)
    THEN ApplyWrites(js, j :> CompletionFields(context))
    ELSE LET o == PhaseOutcome(phases[i], context, js, rc)
         IN  CASE o.kind = "ok" ->
                    AloneLoop(ApplyWrites(ApplyWrites(js, o.writes),
                                          j :> CheckpointFields(o.context, phases[i])),
                              j, phases, i + 1, o.context, o.rc)
               [] o.kind = "pee" -> ApplyWrites(js, j :> FailureFields(o.msg))
               [] OTHER -> js

\* the row of job j after Pipeline(db, phases).run(j) on the store js, alone
\* and with a simulator that has predicted nothing yet
RunAlone(js, j, phases) ==
    AloneLoop(ApplyWrites(js, j :> StartFields), j, phases, 1, InitialContext(js[j]), 0)[j]

\* C30: a step of the run on one job leaves the row of the other job as it
\* is, and when a run returns its job's row is the one the same run would
\* have produced alone.
C30_AsClaimed ==
    [][\A w \in Workers :
         /\ run[w].pc \in {"running", "executed"} /\ run'[w] # run[w] =>
               \A k \in JobIds \ {run[w].job} : jobs'[k] = jobs[k]
         /\ run[w].pc = "running" /\ run'[w].pc = "returned" =>
               jobs'[run[w].job] = RunAlone(PairStore, run[w].job, run[w].phases)]_vars

----------------------------------------------------------------------------
(* C31 *)

\* C31: for every user the feed shows the pending request of that user with
\* the smallest id, never a resolved request, and shows the completion
\* message exactly when the user has no pending request; the production
\* app's feed, whose single user owns every request, shows the same request.
C31_OldestPendingFirst ==
    \A u \in UserIds :
        LET card == GetNextClarificationCard(requests, u)
            mine == {r \in RequestIds : requests[r].owner_id = u
                                         /\ requests[r].status = "pending"}
        IN  /\ card = None <=> mine = {}
            /\ card # None =>
                  /\ card[1] \in mine
                  /\ \A r \in mine : card[1] <= r
                  /\ requests[card[1]].status # "resolved"
            /\ (\A r \in RequestIds : requests[r].owner_id = u) =>
                  ProductionNextCard(requests) = card

\* the oldest request is resolved and a newer one is pending: the feed
\* shows the newer one to its owner and the completion message to user 2
C31_Witness ==
    /\ Len(requests) = 2
    /\ requests[1].status = "resolved" /\ requests[2].status = "pending"
    /\ GetNextClarificationCard(requests, 1) = Some(2)
    /\ GetNextClarificationCard(requests, 2) = None

----------------------------------------------------------------------------
(* C32: the low-confidence detectors applied to scored outputs.            *)

\* confidences just below, at and just above the threshold (percent)
ConfidenceLevels == {Threshold - 1, Threshold, Threshold + 1}

Scored(c) == [value |-> "x", confidence |-> c]

\* pole detections: up to MaxBoxes boxes, each with a confidence
PoleOutputs ==
    {[boxes |-> b] : b \in UNION {[1..n -> ConfidenceLevels] : n \in 0..MaxBoxes}}

\* invoices of the simulator: a scored supplier name, up to one line item
InvoiceOutputs ==
    {[supplier_name |-> Scored(a), line_items |-> items] :
        a \in ConfidenceLevels,
        items \in {<<>>} \cup {<<[quantity |-> Scored(b)]>> : b \in ConfidenceLevels}}

\* what InferencePhase stores: the text and one confidence
OcrOutputs == {[text |-> "hello", confidence |-> c] : c \in ConfidenceLevels}

\* the outputs each detector meets in its own application
DetectorOutputs(d) ==
    IF d = "StationLowConfidenceDetector" THEN OcrOutputs
    ELSE PoleOutputs \cup InvoiceOutputs

ConfidenceDetectors == {"LowConfidenceDetector", "StationLowConfidenceDetector"}

\* a job of the production run or of the station after its first phase
ScoredJob(j, out) ==
    [NewJob(j, "in_progress",
            IF out \in OcrOutputs THEN [path |-> "images/a.png"]
            ELSE [type |-> "image", url |-> "/static/poles/a.jpg"])
        EXCEPT !.initial_ai_output = Some(out)]

InitDetect ==
    /\ jobs \in {[j \in FirstJobs |-> ScoredJob(j, out)] :
                    out \in PoleOutputs \cup InvoiceOutputs \cup OcrOutputs}
    /\ requests = <<>>
    /\ corrections = <<>>
    /\ run_count = 0
    /\ run = [w \in Workers |-> IdleRun]
    /\ ckpt = [j \in FirstJobs |-> None]
    /\ rh = IdleHandler
    /\ used = 0
    /\ gpu = IdleGpu
    /\ task = IdleTask

\* the detector d belongs to the application that produced job j's output
OwnDetector(d, j) == jobs[j].initial_ai_output[1] \in DetectorOutputs(d)

NextDetect ==
    \/ \E j \in JobIds, d \in ConfidenceDetectors : OwnDetector(d, j) /\ GateProcess(j, d)
    \/ \E j \in JobIds, d \in ConfidenceDetectors : OwnDetector(d, j) /\ GateFindsNothing(j, d)

SpecDetect == InitDetect /\ [][NextDetect]_vars

\* the confidences of an output, field by field
Confidences(out) ==
    IF out \in OcrOutputs THEN <<out.confidence>>
    ELSE IF out \in PoleOutputs THEN out.boxes
    ELSE <<out.supplier_name.confidence>>
           \o [i \in 1..Len(out.line_items) |-> out.line_items[i].quantity.confidence]

BelowThreshold(out) == {i \in 1..Len(Confidences(out)) : Confidences(out)[i] < Threshold}

\* C32: for every scored output and the detector of its application, the
\* detector returns exactly one entry when at least one confidence is
\* strictly below the threshold, however many are, and no entry when every
\* confidence is at or above it; each call of the gate adds that many requests.
C32_OneRequestWhenBelow ==
    \A j \in JobIds, d \in ConfidenceDetectors :
        OwnDetector(d, j) =>
            LET out == jobs[j].initial_ai_output[1]
                entries == Detect(d, j, jobs[j])
            IN  /\ BelowThreshold(out) # {} => Len(entries) = 1
                /\ BelowThreshold(out) = {} => entries = <<>>
                /\ Len(requests) = used * Len(entries)
                /\ Len(entries) = 1 =>
                      entries[1].context_data.ai_output = Some(out)

\* the gate ran once on pole detections with two boxes below the threshold
\* and one at it: exactly one request
C32_Witness ==
    /\ jobs[1].initial_ai_output =
         Some([boxes |-> <<Threshold - 1, Threshold, Threshold - 1>>])
    /\ used = 1
    /\ Len(requests) = 1
    /\ requests[1].request_type = "REVIEW_POLES"
    /\ jobs[1].status = "pending_clarification"

----------------------------------------------------------------------------
(* C36 *)

\* C36: when Pipeline.run returns normally for an existing job, the status
\* the store holds for the job at that moment is 'completed' or 'failed',
\* never 'in_progress' or a checkpoint status.
C36_ReturnedRunIsTerminal ==
    [][\A w \in Workers :
         /\ run[w].pc \in {"running", "executed"}
         /\ run'[w].pc = "returned"
         => /\ run[w].job \in JobIds
            /\ jobs'[run[w].job].status \in {"completed", "failed"}
            /\ jobs'[run[w].job].status = run'[w].outcome]_vars

\* a run has returned after its first phase failed on a job that an earlier
\* run had checkpointed: the status is 'failed', the checkpoint context stays
C36_Witness ==
    /\ run[1].pc = "returned" /\ run[1].outcome = "failed"
    /\ jobs[1].status = "failed"
    /\ jobs[1].pipeline_context # None
    /\ ckpt[1] # None
    /\ jobs[1].pipeline_context = Some(ckpt[1][1].context)
    /\ corrections = <<>> /\ requests = <<>>

----------------------------------------------------------------------------
(* C33 *)

\* C33: run_foundry_pipeline with a name the registry does not hold marks an
\* existing job 'failed' with the error "Pipeline '<name>' is not
\* registered." and touches nothing else of it, changes nothing for an
\* unknown job id, starts no run and no phase, and ends with its session
\* closed.
C33_UnregisteredFailsJob ==
    [][\A j \in TaskJobIds, name \in TaskNames :
         TaskUnregistered(j, name) =>
            /\ j \in JobIds =>
                  /\ jobs'[j] = [jobs[j] EXCEPT
                                   !.status = "failed",
                                   !.error_message =
                                      Some("Pipeline '" \o name \o "' is not registered.")]
                  /\ \A k \in JobIds \ {j} : jobs'[k] = jobs[k]
            /\ j \notin JobIds => jobs' = jobs
            /\ run' = run /\ run_count' = run_count /\ ckpt' = ckpt
            /\ requests' = requests /\ corrections' = corrections
            /\ task'.pc = "done" /\ task'.session = "closed"]_vars

\* the task was sent for job 1 with the unregistered name and is over
C33_Witness ==
    /\ task.pc = "done" /\ task.name = "report_pipeline" /\ task.job = 1
    /\ task.session = "closed"
    /\ jobs[1].status = "failed"
    /\ jobs[1].error_message = Some("Pipeline 'report_pipeline' is not registered.")
    /\ run[1].pc = "idle"

----------------------------------------------------------------------------
(* C37 *)

\* C37: when a task sent with a registered pipeline returns, an existing job
\* it was sent for is 'completed' or 'failed', also when a phase raised an
\* exception that is no PhaseExecutionError.
C37_AsClaimed ==
    task.pc = "done" /\ task.name \in DOMAIN Registry /\ task.job \in JobIds
        => jobs[task.job].status \in {"completed", "failed"}

----------------------------------------------------------------------------
(* C34 *)

\* the correction records of job j
RecordsOf(recs, j) == {i \in 1..Len(recs) : recs[i].job_id = j}

\* C34: after every call of save_correction for a job there is exactly one
\* CorrectionRecord of the job (created by the first call, the same row
\* updated by later calls), no other record has changed, the record holds
\* the job's input_data, initial_ai_output and corrected_output with status
\* 'approved_for_finetuning', and the job is 'completed'; no job ever has
\* two records.
C34_OneRecordPerJob ==
    [][/\ \A j \in JobIds : Cardinality(RecordsOf(corrections, j)) <= 1
       /\ \A j \in JobIds :
            used' = used + 1 /\ run' = run /\ requests' = requests /\ HumanPathStep(j) =>
               /\ Cardinality(RecordsOf(corrections', j)) = 1
               /\ Len(corrections') = Len(corrections)
                                        + (IF RecordsOf(corrections, j) = {} THEN 1 ELSE 0)
               /\ \A i \in 1..Len(corrections) :
                     IF corrections[i].job_id = j
                     THEN corrections'[i].job_id = j
                     ELSE corrections'[i] = corrections[i]
               /\ \A i \in RecordsOf(corrections', j) :
                     /\ corrections'[i].source_input = jobs'[j].input_data
                     /\ corrections'[i].model_output = jobs'[j].initial_ai_output
                     /\ corrections'[i].human_correction = jobs'[j].corrected_output
                     /\ corrections'[i].status = "approved_for_finetuning"
               /\ jobs'[j].status = "completed"]_vars

\* job 1 was corrected twice by the correction deck and has one record
C34_Witness ==
    /\ used = 2
    /\ run[1].pc = "idle" /\ requests = <<>> /\ rh = IdleHandler
    /\ Len(corrections) = 1
    /\ corrections[1].job_id = 1
    /\ corrections[1].human_correction = jobs[1].corrected_output
    /\ jobs[1].corrected_output # None
    /\ jobs[1].status = "completed"

----------------------------------------------------------------------------
(* C35 *)

\* C35: save_correction called with an id no job has raises ValueError and
\* leaves every job row and every correction record (and every request) as
\* it was.
C35_MissingJobChangesNothing ==
    [][\A body \in PoleBodies :
         used' = used + 1 /\ run' = run /\ CorrectMissingJob(MissingJobId, body) =>
            /\ SaveCorrectionRaises(jobs, MissingJobId)
            /\ jobs' = jobs
            /\ corrections' = corrections
            /\ requests' = requests]_vars

\* a correction was posted for the unknown id: the store is as created
C35_Witness ==
    /\ used = 1
    /\ run[1].pc = "idle" /\ rh = IdleHandler
    /\ jobs[1] = TextJob(1)
    /\ corrections = <<>> /\ requests = <<>>

----------------------------------------------------------------------------
(* C38 *)

\* the pending requests of the ledger that name job j
PendingIn(reqs, j) ==
    {r \in 1..Len(reqs) : reqs[r].status = "pending" /\ reqs[r].context_data.job_id = j}

\* every entry the detector returns for job j is already pending in the ledger
AlreadyPending(j, d) ==
    \A i \in 1..Len(Detect(d, j, jobs[j])) :
        \E r \in PendingIn(requests, j) :
            /\ requests[r].request_type = Detect(d, j, jobs[j])[i].request_type
            /\ requests[r].context_data = Detect(d, j, jobs[j])[i].context_data

\* C38: replaying the gate on a job whose detector returns the same entries
\* as before leaves the number of pending requests of the job as it was
\* (n, not 2n).
C38_AsClaimed ==
    [][\A j \in JobIds, d \in Detectors :
         requests' # requests /\ AlreadyPending(j, d) /\ GateProcess(j, d) =>
            Cardinality(PendingIn(requests', j)) = Cardinality(PendingIn(requests, j))]_vars

----------------------------------------------------------------------------
(* C39 *)

\* C39: when the station's resolve_clarification(request_id, corrected_text)
\* returns, the job's corrected_output and the human_correction of its
\* correction record both hold the submitted text, and the request is
\* 'resolved'.
C39_AsClaimed ==
    [][rh.pc = "station" /\ rh'.pc = "idle" =>
         /\ requests'[rh.req].status = "resolved"
         /\ jobs'[RequestJob(rh.req)].corrected_output # None
         /\ DictGet(jobs'[RequestJob(rh.req)].corrected_output[1], "text") = rh.answer
         /\ RecordsOf(corrections', RequestJob(rh.req)) # {}
         /\ \A i \in RecordsOf(corrections', RequestJob(rh.req)) :
               /\ corrections'[i].human_correction # None
               /\ DictGet(corrections'[i].human_correction[1], "text") = rh.answer]_vars

====
